---- MODULE Spec2Model ----
(***************************************************************************)
(* State-machine model of src/src/RingViewer.jsx: one mount of the         *)
(* RingViewer component (render, effect setup, the two asynchronous loads, *)
(* the animation loop, the window resize listener and the effect cleanup). *)
(*                                                                         *)
(* Numbers that are floats in the source are scaled to integers: colour    *)
(* channels are in hundredths (0.35 -> 35), environment intensities in     *)
(* thousandths (2.2 -> 2200).                                              *)
(***************************************************************************)
EXTENDS Integers, Sequences, FiniteSets, TLC

\* ------------------------------------------------------------------ bounds

\* Math.random() is drawn from the grid {0/RandGrid, ..., (RandGrid-1)/RandGrid}.
RandGrid == 10
\* Animation frames whose callback runs during one mount.
MaxFrames == 2
\* Objects in a loaded glTF scene.
MaxObjects == 1
\* Extra invocations of the cleanup function after the first (SpecTwice only).
MaxExtraTeardowns == 1

Null == "null"

\* ------------------------------------------------------- catalogs (l.10-45)

RING_MODELS ==
  << "/models/ring1.glb", "/models/ring2.glb", "/models/ring3.glb",
     "/models/ring4.glb", "/models/ring5.glb", "/models/ring6.glb",
     "/models/ring7.glb", "/models/ring8.glb", "/models/ring9.glb",
     "/models/ring10.glb" >>

\* color is kept symbolic, roughness in hundredths, envIntensity in thousandths.
METALS ==
  [ yellow |-> [label |-> "Yellow Gold", color |-> "0xe3bb5e", roughness |-> 10, envIntensity |-> 2200],
    white  |-> [label |-> "White Gold",  color |-> "0xc2c2c3", roughness |-> 10, envIntensity |-> 2000],
    rose   |-> [label |-> "Rose Gold",   color |-> "0xd9a483", roughness |-> 10, envIntensity |-> 2100] ]

METAL_KEYS == << "yellow", "white", "rose" >>

\* arr[Math.floor(Math.random() * arr.length)], with Math.random() = r / RandGrid.
pickRandom(arr, r) == arr[((r * Len(arr)) \div RandGrid) + 1]

Randoms == 0 .. (RandGrid - 1)

\* The draws of a later render are taken from the two ends of the grid.
RerenderRandoms == { 0, RandGrid - 1 }

\* useRef(initial): the initial value is taken on the first render only; on a
\* later render the argument is evaluated and ignored.
useRef_m(current, initial) == initial
useRef(current, initial) == IF current = Null THEN initial ELSE current

\* ------------------------------------------------ colour predicates (l.61-69)

\* A colour is [has, r, g, b]; has = FALSE stands for an absent colour
\* (material without a color property, or no material).
NoColor == [has |-> FALSE, r |-> 0, g |-> 0, b |-> 0]

isGreenish(color) ==
  IF ~color.has THEN FALSE
  ELSE color.g > 35 /\ color.r < 25 /\ color.b < 25

isBluish(color) ==
  IF ~color.has THEN FALSE
  ELSE color.b > 35 /\ color.r < 30 /\ color.g < 35

\* ------------------------------------------------------ strings (l.218-225)
\* A name is a sequence of one-character strings.

Upper == << "A","B","C","D","E","F","G","H","I","J","K","L","M",
            "N","O","P","Q","R","S","T","U","V","W","X","Y","Z" >>
Lower == << "a","b","c","d","e","f","g","h","i","j","k","l","m",
            "n","o","p","q","r","s","t","u","v","w","x","y","z" >>

lowerChar(c) ==
  IF \E i \in 1..Len(Upper) : Upper[i] = c
  THEN Lower[CHOOSE i \in 1..Len(Upper) : Upper[i] = c]
  ELSE c

toLowerCase(s) == [i \in 1..Len(s) |-> lowerChar(s[i])]

includes(s, sub) ==
  \E i \in 1..(Len(s) - Len(sub) + 1) : SubSeq(s, i, i + Len(sub) - 1) = sub

kwGem == << "g","e","m" >>
kwStone == << "s","t","o","n","e" >>
kwDiamond == << "d","i","a","m","o","n","d" >>
kwCenter == << "c","e","n","t","e","r" >>
kwMainstone == << "m","a","i","n","s","t","o","n","e" >>

\* (obj.name || "").toLowerCase(); a scene object is
\* [isMesh, hasName, name, matKind, mats]: matKind is "none" (no material),
\* "single" (mats[1] is the material's colour) or "array" (mats lists the
\* colours of the materials of the array, possibly none).
meshName(obj) == toLowerCase(IF obj.hasName THEN obj.name ELSE << >>)

nameSuggestsGem(name) ==
  \/ includes(name, kwGem)
  \/ includes(name, kwStone)
  \/ includes(name, kwDiamond)
  \/ includes(name, kwCenter)
  \/ includes(name, kwMainstone)

\* Array.isArray(oldMat) ? oldMat[0]?.color : oldMat?.color
oldColorOf(obj) ==
  IF obj.matKind = "array"
  THEN (IF Len(obj.mats) = 0 THEN NoColor ELSE obj.mats[1])
  ELSE (IF obj.matKind = "none" THEN NoColor ELSE obj.mats[1])

\* The material tag and draw order the traverse callback gives a mesh (l.231-245).
classifyMesh_m(obj) ==
  LET name == meshName(obj)
      oldColor == oldColorOf(obj)
      useGem == nameSuggestsGem(name) \/ isBluish(oldColor)
  IN  IF useGem /\ ~isGreenish(oldColor)
      THEN [material |-> "diamondMat", renderOrder |-> 2]
      ELSE [material |-> "goldMat", renderOrder |-> 0]

classifyMesh(obj) ==
  LET name == meshName(obj)
      oldColor == oldColorOf(obj)
      useGem == nameSuggestsGem(name) \/ isBluish(oldColor)
      useMetal == ~useGem
  IN  IF useGem
      THEN [material |-> "diamondMat", renderOrder |-> 2]
      ELSE IF useMetal \/ isGreenish(oldColor)
      THEN [material |-> "goldMat", renderOrder |-> 0]
      ELSE [material |-> "goldMat", renderOrder |-> 0]

\* ------------------------------------------------------------ environment

\* Window widths and values of the height prop (l.71: default 520).
Widths == {800, 1200}
Heights == {300, 520}
DefaultHeight == 520

\* envMapIntensity of the gem material at construction (l.175) and in the
\* HDR failure fallback (l.198), in thousandths.
GemEnvIntensity == 5000
FallbackEnvIntensity == 6000

RECURSIVE gcd(_, _)
gcd(a, b) == IF b = 0 THEN a ELSE gcd(b, a % b)

\* w / h as a reduced fraction.
Ratio(w, h) == [num |-> w \div gcd(w, h), den |-> h \div gcd(w, h)]

\* Scene objects used for the loads of the full lifecycle.
chBand == << "b","a","n","d" >>
chCenterStone == << "c","e","n","t","e","r","S","t","o","n","e" >>
colGold == [has |-> TRUE, r |-> 80, g |-> 60, b |-> 20]
colBlue == [has |-> TRUE, r |-> 10, g |-> 20, b |-> 80]

SampleObjects ==
  { [isMesh |-> TRUE, hasName |-> TRUE, name |-> chCenterStone, matKind |-> "single", mats |-> << colGold >>],
    [isMesh |-> TRUE, hasName |-> TRUE, name |-> chBand, matKind |-> "single", mats |-> << colBlue >>],
    [isMesh |-> TRUE, hasName |-> TRUE, name |-> chBand, matKind |-> "single", mats |-> << colGold >>],
    [isMesh |-> FALSE, hasName |-> FALSE, name |-> << >>, matKind |-> "none", mats |-> << >>] }

\* Names and colours for the classification of single meshes.
ClassifyNames ==
  { chBand, chCenterStone,
    << "G","e","m","_","0","1" >>,
    << "D","I","A","M","O","N","D" >>,
    << "M","a","i","n","S","t","o","n","e" >>,
    << "s","t","o","n" >>,
    << "C","e","n","t","r","e" >>,
    << "p","r","o","n","g" >> }

ClassifyColors ==
  { [has |-> TRUE, r |-> r, g |-> g, b |-> b] :
      r \in { 10, 25, 30 }, g \in { 20, 35, 36 }, b \in { 20, 35, 36 } }
  \cup { NoColor }

AllObjects ==
  { [isMesh |-> TRUE, hasName |-> TRUE, name |-> n, matKind |-> "single", mats |-> << c >>] :
      n \in ClassifyNames, c \in ClassifyColors }
  \cup
  { [isMesh |-> TRUE, hasName |-> FALSE, name |-> << >>, matKind |-> k, mats |-> m] :
      k \in { "array" }, m \in { << >> } \cup { << c, colBlue >> : c \in ClassifyColors } }
  \cup
  { [isMesh |-> TRUE, hasName |-> FALSE, name |-> << >>, matKind |-> "none", mats |-> << >>],
    [isMesh |-> FALSE, hasName |-> TRUE, name |-> chCenterStone, matKind |-> "single", mats |-> << colBlue >>] }

RECURSIVE SeqsUpTo(_, _)
SeqsUpTo(S, n) ==
  IF n = 0 THEN { << >> }
  ELSE LET shorter == SeqsUpTo(S, n - 1)
       IN  shorter \cup { Append(q, x) : q \in { t \in shorter : Len(t) = n - 1 }, x \in S }

SampleScenes == SeqsUpTo(SampleObjects, MaxObjects)

\* Scenes made of the centre stone alone.
StoneScenes ==
  SeqsUpTo({ [isMesh |-> TRUE, hasName |-> TRUE, name |-> chCenterStone,
              matKind |-> "single", mats |-> << colGold >>] }, MaxObjects)

\* ------------------------------------------------------------------- state

VARIABLES
  phase,          \* "init" (not rendered), "mounted", "unmounted"
  modelPath,      \* useRef(pickRandom(RING_MODELS)).current, Null before the first render
  metalKey,       \* useRef(pickRandom(METAL_KEYS)).current
  heightProp,     \* the height prop of the last render
  winW,           \* window width
  resizePending,  \* a window "resize" event waits to be dispatched
  listener,       \* onResize is registered on window
  rendererSize,   \* << w, h >> of the last renderer.setSize
  cameraAspect,   \* camera.aspect as a reduced fraction
  domAttached,    \* renderer.domElement is a child of the mount element
  rafHandle,      \* last handle requestAnimationFrame returned
  rafId,          \* the closure's rafId
  rafQueue,       \* handles of the scheduled animation-frame callbacks
  renders,        \* executions of the body of animate
  rotSteps,       \* executions of ringRoot.rotation.y += dt * 0.35
  hdrState,       \* "idle", "pending", "loaded", "failed"
  diamondEnv,     \* the closure's diamondEnv
  diamondMat,     \* [envMap, envMapIntensity, depthTest, depthWrite]
  goldMat,        \* [color, roughness, envMapIntensity, envMap]
  modelState,     \* "idle", "pending", "loaded", "failed"
  loads,          \* [hdr, gltf]: calls of rgbeLoader.load / gltfLoader.load
  ringRoot,       \* the closure's ringRoot
  sceneRoot,      \* ringRoot was added to the scene
  cameraFitted,   \* the camera was fitted to the model's bounding sphere
  meshes,         \* the objects below ringRoot with what the traverse gave them
  created,        \* disposable resources created so far
  disposed,       \* resource -> number of dispose calls
  errorLog,       \* console.error lines
  teardowns,      \* invocations of the cleanup function
  threw           \* an invocation of the cleanup function threw

vars ==
  << phase, modelPath, metalKey, heightProp, winW, resizePending, listener,
     rendererSize, cameraAspect, domAttached, rafHandle, rafId, rafQueue,
     renders, rotSteps, hdrState, diamondEnv, diamondMat, goldMat, modelState,
     loads, ringRoot, sceneRoot, cameraFitted, meshes, created, disposed,
     errorLog, teardowns, threw >>

selVars == << modelPath, metalKey >>
sizeVars == << heightProp, winW, resizePending, rendererSize, cameraAspect >>
rafVars == << rafHandle, rafId, rafQueue, renders, rotSteps >>
hdrVars == << hdrState, diamondEnv >>
modelVars == << modelState, ringRoot, sceneRoot, cameraFitted, meshes, errorLog >>
cleanupVars == << listener, domAttached, teardowns, threw >>

Resources ==
  { "controls", "dracoLoader", "goldMat", "diamondMat", "metalEnv",
    "diamondEnv", "pmrem", "renderer", "hdr" }

\* mount.clientWidth / mount.clientHeight: the div is width: "100%" of App's
\* block (minWidth 100vw) and height: {height}.
clientWidth == winW
clientHeight == heightProp

Init ==
  /\ phase = "init"
  /\ modelPath = Null
  /\ metalKey = Null
  /\ heightProp = DefaultHeight
  /\ winW \in Widths
  /\ resizePending = FALSE
  /\ listener = FALSE
  /\ rendererSize = << 0, 0 >>
  /\ cameraAspect = Ratio(1, 1)
  /\ domAttached = FALSE
  /\ rafHandle = 0
  /\ rafId = 0
  /\ rafQueue = {}
  /\ renders = 0
  /\ rotSteps = 0
  /\ hdrState = "idle"
  /\ diamondEnv = Null
  /\ diamondMat = [envMap |-> Null, envMapIntensity |-> 0, depthTest |-> TRUE, depthWrite |-> TRUE]
  /\ goldMat = [color |-> Null, roughness |-> 0, envMapIntensity |-> 0, envMap |-> Null]
  /\ modelState = "idle"
  /\ loads = [hdr |-> 0, gltf |-> 0]
  /\ ringRoot = Null
  /\ sceneRoot = FALSE
  /\ cameraFitted = FALSE
  /\ meshes = << >>
  /\ created = {}
  /\ disposed = [r \in Resources |-> 0]
  /\ errorLog = << >>
  /\ teardowns = 0
  /\ threw = FALSE

\* ----------------------------------------------------------------- actions

\* animate (l.277-283), entered from the callback whose handles are `running`.
animate_m(running) ==
  /\ rafHandle' = rafHandle + 1
  /\ rafId' = rafId
  /\ rafQueue' = (rafQueue \ running) \cup { rafHandle + 1 }
  /\ rotSteps' = IF ringRoot # Null THEN rotSteps + 1 ELSE rotSteps
  /\ renders' = renders + 1

animate(running) ==
  /\ rafHandle' = rafHandle + 1
  /\ rafId' = rafHandle + 1
  /\ rafQueue' = (rafQueue \ running) \cup { rafHandle + 1 }
  /\ rotSteps' = IF ringRoot # Null THEN rotSteps + 1 ELSE rotSteps
  /\ renders' = renders + 1

\* onResize (l.287-293).
onResize ==
  /\ cameraAspect' = Ratio(clientWidth, clientHeight)
  /\ rendererSize' = << clientWidth, clientHeight >>

\* The first render (l.71-77) and the effect (l.79-294). The div of the
\* render carries mountRef, so the effect's early return (l.81) is not taken.
Mount(r1, r2, h) ==
  /\ phase = "init"
  /\ phase' = "mounted"
  /\ modelPath' = useRef(modelPath, pickRandom(RING_MODELS, r1))
  /\ metalKey' = useRef(metalKey, pickRandom(METAL_KEYS, r2))
  /\ heightProp' = h
  /\ cameraAspect' = Ratio(winW, h)
  /\ rendererSize' = << winW, h >>
  /\ domAttached' = TRUE
  /\ diamondEnv' = Null
  /\ goldMat' = LET metal == METALS[metalKey']
                IN  [ color |-> metal.color,
                      roughness |-> metal.roughness + 5,
                      envMapIntensity |-> (metal.envIntensity * 75) \div 100,
                      envMap |-> "metalEnv" ]
  /\ diamondMat' = [ envMap |-> Null, envMapIntensity |-> GemEnvIntensity,
                     depthTest |-> TRUE, depthWrite |-> TRUE ]
  /\ created' = { "renderer", "pmrem", "metalEnv", "controls", "dracoLoader",
                  "goldMat", "diamondMat" }
  /\ hdrState' = "pending"
  /\ modelState' = "pending"
  /\ loads' = [hdr |-> loads.hdr + 1, gltf |-> loads.gltf + 1]
  /\ ringRoot' = Null
  /\ animate({})
  /\ listener' = TRUE
  /\ UNCHANGED << winW, resizePending, sceneRoot, cameraFitted, meshes,
                  disposed, errorLog, teardowns, threw >>

\* A later render of the mounted component (l.71-77, l.321-332): the refs are
\* read again, the div takes the new height; the effect's dependencies
\* [modelPath, metalKey] are the refs' values.
Rerender(r1, r2, h) ==
  /\ phase = "mounted"
  /\ modelPath' = useRef(modelPath, pickRandom(RING_MODELS, r1))
  /\ metalKey' = useRef(metalKey, pickRandom(METAL_KEYS, r2))
  /\ heightProp' = h
  /\ UNCHANGED << phase, winW, resizePending, listener, rendererSize,
                  cameraAspect, domAttached, rafVars, hdrVars, diamondMat,
                  goldMat, modelVars, loads, created, disposed, teardowns,
                  threw >>

\* The user resizes the window: the browser queues a "resize" event.
WindowResize(w) ==
  /\ phase = "mounted"
  /\ w # winW
  /\ winW' = w
  /\ resizePending' = TRUE
  /\ UNCHANGED << phase, selVars, heightProp, listener, rendererSize,
                  cameraAspect, domAttached, rafVars, hdrVars, diamondMat,
                  goldMat, modelVars, loads, created, disposed, teardowns,
                  threw >>

\* The browser dispatches the queued "resize" event (l.294, l.298).
DispatchResize ==
  /\ resizePending
  /\ resizePending' = FALSE
  /\ IF listener THEN onResize ELSE UNCHANGED << cameraAspect, rendererSize >>
  /\ UNCHANGED << phase, selVars, heightProp, winW, listener, domAttached,
                  rafVars, hdrVars, diamondMat, goldMat, modelVars, loads,
                  created, disposed, teardowns, threw >>

\* The browser runs a scheduled animation-frame callback.
AnimationFrame ==
  /\ rafHandle <= MaxFrames
  /\ \E id \in rafQueue : animate({ id })
  /\ UNCHANGED << phase, selVars, sizeVars, listener, domAttached, hdrVars,
                  diamondMat, goldMat, modelVars, loads, created, disposed,
                  teardowns, threw >>

\* rgbeLoader.load success callback (l.185-193).
HdrSuccess_m ==
  /\ hdrState = "pending"
  /\ hdrState' = "loaded"
  /\ diamondEnv' = "diamondEnv"
  /\ diamondMat' = [diamondMat EXCEPT !.envMap = "diamondEnv"]
  /\ created' = created \cup { "hdr", "diamondEnv" }
  /\ disposed' = disposed
  /\ UNCHANGED << phase, selVars, sizeVars, rafVars, goldMat, modelVars,
                  loads, cleanupVars >>

HdrSuccess ==
  /\ hdrState = "pending"
  /\ hdrState' = "loaded"
  /\ diamondEnv' = "diamondEnv"
  /\ diamondMat' = [diamondMat EXCEPT !.envMap = "diamondEnv"]
  /\ created' = created \cup { "hdr", "diamondEnv" }
  /\ disposed' = [disposed EXCEPT !["hdr"] = @ + 1]
  /\ UNCHANGED << phase, selVars, sizeVars, rafVars, goldMat, modelVars,
                  loads, cleanupVars >>

\* rgbeLoader.load failure callback (l.195-200).
HdrFailure_m ==
  /\ hdrState = "pending"
  /\ hdrState' = "failed"
  /\ diamondMat' = [diamondMat EXCEPT !.envMap = "metalEnv"]
  /\ UNCHANGED << phase, selVars, sizeVars, rafVars, diamondEnv, goldMat,
                  modelVars, loads, created, disposed, cleanupVars >>

HdrFailure ==
  /\ hdrState = "pending"
  /\ hdrState' = "failed"
  /\ diamondMat' = [diamondMat EXCEPT !.envMap = "metalEnv",
                                      !.envMapIntensity = FallbackEnvIntensity]
  /\ UNCHANGED << phase, selVars, sizeVars, rafVars, diamondEnv, goldMat,
                  modelVars, loads, created, disposed, cleanupVars >>

\* disposeMaterial(oldMat) (l.51-59): the number of materials disposed.
disposeMaterialCount(obj) ==
  IF obj.matKind = "none" THEN 0
  ELSE IF obj.matKind = "array" THEN Len(obj.mats)
  ELSE 1

\* The traverse callback on one object (l.214-248).
traverseObject(obj) ==
  IF ~obj.isMesh
  THEN [ obj |-> obj, material |-> "none", renderOrder |-> 0,
         geometryDisposed |-> 0, oldMatDisposed |-> 0 ]
  ELSE [ obj |-> obj, material |-> classifyMesh(obj).material,
         renderOrder |-> classifyMesh(obj).renderOrder,
         geometryDisposed |-> 0, oldMatDisposed |-> disposeMaterialCount(obj) ]

\* gltfLoader.load success callback (l.210-269) on the loaded scene.
GltfSuccess(scene) ==
  /\ modelState = "pending"
  /\ modelState' = "loaded"
  /\ ringRoot' = "root"
  /\ sceneRoot' = TRUE
  /\ meshes' = [i \in 1..Len(scene) |-> traverseObject(scene[i])]
  /\ diamondMat' =
       IF \E i \in 1..Len(scene) : meshes'[i].material = "diamondMat"
       THEN [diamondMat EXCEPT !.depthTest = TRUE, !.depthWrite = FALSE]
       ELSE diamondMat
  /\ cameraFitted' = TRUE
  /\ UNCHANGED << phase, selVars, sizeVars, rafVars, hdrVars, goldMat, loads,
                  created, disposed, errorLog, cleanupVars >>

\* gltfLoader.load failure callback (l.271-273).
GltfFailure_m ==
  /\ modelState = "pending"
  /\ modelState' = "failed"
  /\ errorLog' = errorLog
  /\ UNCHANGED << phase, selVars, sizeVars, rafVars, hdrVars, diamondMat,
                  goldMat, loads, ringRoot, sceneRoot, cameraFitted, meshes,
                  created, disposed, cleanupVars >>

GltfFailure ==
  /\ modelState = "pending"
  /\ modelState' = "failed"
  /\ errorLog' = Append(errorLog, modelPath)
  /\ UNCHANGED << phase, selVars, sizeVars, rafVars, hdrVars, diamondMat,
                  goldMat, loads, ringRoot, sceneRoot, cameraFitted, meshes,
                  created, disposed, cleanupVars >>

\* ----------------------------------------------------------------- cleanup

\* if (diamondEnv) diamondEnv.dispose?.() (l.308): what the statement does.
diamondEnvStep_m(env) == IF env = Null THEN "throw" ELSE "dispose"
diamondEnvStep(env) == IF env = Null THEN "skip" ELSE "dispose"

\* renderer.domElement?.parentNode?.removeChild(...) (l.317).
detachStep(attached) == IF attached THEN "remove" ELSE "skip"

\* cancelAnimationFrame(rafId) (l.299).
cancelAnimationFrame(queue, id) == queue \ { id }

\* The statements of the cleanup function, numbered in source order
\* (l.298-317): 1 removeEventListener, 2 cancelAnimationFrame, 3 controls,
\* 4 dracoLoader, 5 goldMat, 6 diamondMat, 7 metalEnv, 8 diamondEnv, 9 pmrem,
\* 10 scene.traverse, 11 renderer, 12 removeChild.
cleanupStepOf ==
  [ controls |-> 3, dracoLoader |-> 4, goldMat |-> 5, diamondMat |-> 6,
    metalEnv |-> 7, diamondEnv |-> 8, pmrem |-> 9, renderer |-> 11 ]

\* The first statement that throws, 0 when none does.
cleanupThrowsAt ==
  IF diamondEnvStep(diamondEnv) = "throw" THEN 8
  ELSE IF detachStep(domAttached) = "throw" THEN 12
  ELSE 0

\* The cleanup function returned by the effect (l.297-318).
Cleanup ==
  LET at == cleanupThrowsAt
      ran(i) == at = 0 \/ i < at
  IN  /\ teardowns' = teardowns + 1
      /\ threw' = (threw \/ at # 0)
      /\ listener' = IF ran(1) THEN FALSE ELSE listener
      /\ rafQueue' = IF ran(2) THEN cancelAnimationFrame(rafQueue, rafId) ELSE rafQueue
      /\ disposed' =
           [ r \in Resources |->
               IF r \in DOMAIN cleanupStepOf /\ ran(cleanupStepOf[r])
                  /\ (r = "diamondEnv" => diamondEnvStep(diamondEnv) = "dispose")
               THEN disposed[r] + 1
               ELSE disposed[r] ]
      /\ meshes' =
           [ i \in 1..Len(meshes) |->
               IF ran(10) /\ sceneRoot /\ meshes[i].obj.isMesh
               THEN [meshes[i] EXCEPT !.geometryDisposed = @ + 1]
               ELSE meshes[i] ]
      /\ domAttached' = IF ran(12) /\ detachStep(domAttached) = "remove"
                        THEN FALSE ELSE domAttached

\* React unmounts the component: the effect's cleanup runs.
Teardown ==
  /\ phase = "mounted"
  /\ phase' = "unmounted"
  /\ Cleanup
  /\ UNCHANGED << selVars, sizeVars, rafHandle, rafId, renders, rotSteps,
                  hdrVars, diamondMat, goldMat, modelState, loads, ringRoot,
                  sceneRoot, cameraFitted, created, errorLog >>

\* The cleanup function is invoked again after the unmount.
TeardownAgain ==
  /\ phase = "unmounted"
  /\ teardowns < 1 + MaxExtraTeardowns
  /\ Cleanup
  /\ UNCHANGED << phase, selVars, sizeVars, rafHandle, rafId, renders,
                  rotSteps, hdrVars, diamondMat, goldMat, modelState, loads,
                  ringRoot, sceneRoot, cameraFitted, created, errorLog >>

\* ---------------------------------------------------------- specifications

\* The steps of the component and of its environment, with the draws of
\* Math.random() at mount in rs, the height prop in hs and the loaded glTF
\* scene in scenes.
NextOver(rs, hs, scenes) ==
  \/ \E r1 \in rs, r2 \in rs, h \in hs : Mount(r1, r2, h)
  \/ \E r1 \in RerenderRandoms, r2 \in RerenderRandoms, h \in hs : Rerender(r1, r2, h)
  \/ \E w \in Widths : WindowResize(w)
  \/ DispatchResize
  \/ AnimationFrame
  \/ HdrSuccess
  \/ HdrFailure
  \/ \E scene \in scenes : GltfSuccess(scene)
  \/ GltfFailure
  \/ Teardown

\* The lifecycle React drives: the cleanup runs once, at unmount. The draws at
\* mount are the two ends of the grid.
Next == NextOver(RerenderRandoms, Heights, SampleScenes)

Spec == Init /\ [][Next]_vars

\* The same, with the cleanup function invoked again by its holder.
NextTwice == Next \/ TeardownAgain

SpecTwice == Init /\ [][NextTwice]_vars

\* The lifecycle with every draw of the grid at mount.
NextSelect == NextOver(Randoms, Heights, StoneScenes)

SpecSelect == Init /\ [][NextSelect]_vars

\* The model-load callback on every scene of one object of AllObjects.
NextClassify ==
  \/ \E r1 \in RerenderRandoms, r2 \in RerenderRandoms : Mount(r1, r2, DefaultHeight)
  \/ \E obj \in AllObjects : GltfSuccess(<< obj >>)

SpecClassify == Init /\ [][NextClassify]_vars

\* ------------------------------------------------------------------ claims

Loaded == { "loaded", "failed" }

GemKeywords == { kwGem, kwStone, kwDiamond, kwCenter, kwMainstone }

\* C1: once the mount has ended and both loads have resolved, every disposable
\* resource created during the mount (controls, Draco decoder, both
\* materials, both environment maps, PMREM generator, every loaded mesh
\* geometry, renderer) has had dispose invoked exactly once.
C1_EveryResourceDisposedOnce ==
  (phase = "unmounted" /\ hdrState \in Loaded /\ modelState \in Loaded)
    => /\ \A r \in created \ { "hdr" } : disposed[r] = 1
       /\ \A i \in 1..Len(meshes) :
            meshes[i].obj.isMesh => meshes[i].geometryDisposed = 1

\* C2: every invocation of the cleanup function, the first or a later one,
\* before or after either load resolved or failed, runs all its statements
\* without throwing; the HDR-derived environment map is disposed only when
\* it exists, and the drawing surface is detached.
C2_TeardownNeverThrows ==
  /\ ~threw
  /\ teardowns > 0 =>
       /\ ~listener
       /\ ~domAttached
       /\ rafQueue = {}
       /\ disposed["controls"] = teardowns
       /\ disposed["renderer"] = teardowns
       /\ disposed["diamondEnv"] <= teardowns
       /\ (diamondEnv = Null => disposed["diamondEnv"] = 0)

C2_Witness ==
  /\ teardowns = 2
  /\ hdrState = "failed"
  /\ modelState = "failed"
  /\ diamondEnv = Null
  /\ ringRoot = Null

\* C3: a mesh whose lower-cased name contains one of the gem keywords gets
\* the gem material whatever its original colour; a mesh without such a name
\* whose original colour is bluish (b > 0.35, r < 0.3, g < 0.35) gets the gem
\* material; any other mesh gets the metal material. Greenness plays no part.
C3_Classification ==
  \A i \in 1..Len(meshes) :
    LET o == meshes[i].obj
        lname == toLowerCase(IF o.hasName THEN o.name ELSE << >>)
        gemName == \E kw \in GemKeywords : includes(lname, kw)
        c == IF o.matKind = "none" \/ Len(o.mats) = 0 THEN NoColor ELSE o.mats[1]
        bluish == c.has /\ c.b > 35 /\ c.r < 30 /\ c.g < 35
    IN  o.isMesh =>
          meshes[i].material = IF gemName \/ bluish THEN "diamondMat" ELSE "goldMat"

C3_Witness ==
  /\ Len(meshes) = 1
  /\ meshes[1].obj.isMesh
  /\ meshes[1].obj.name = chBand
  /\ isGreenish(meshes[1].obj.mats[1])
  /\ meshes[1].material = "goldMat"

\* C4 (as claimed): while neither HDR callback has been invoked the gem
\* material's environment map is the synthetic room map and its intensity is
\* the fallback multiplier 6.
C4_FallbackWithoutCallback ==
  (phase # "init" /\ hdrState = "pending")
    => /\ diamondMat.envMap = "metalEnv"
       /\ diamondMat.envMapIntensity = FallbackEnvIntensity

\* C4 (amended): while neither HDR callback has been invoked the gem material
\* has no environment map and intensity 5; once the failure callback has run
\* its environment map is the synthetic room map and its intensity is 6.
C4_FallbackOnFailureOnly ==
  /\ (phase # "init" /\ hdrState = "pending")
       => /\ diamondMat.envMap = Null
          /\ diamondMat.envMapIntensity = GemEnvIntensity
  /\ hdrState = "failed"
       => /\ diamondMat.envMap = "metalEnv"
          /\ diamondMat.envMapIntensity = FallbackEnvIntensity

C4_Witness ==
  /\ phase = "mounted"
  /\ hdrState = "failed"
  /\ renders > 1

\* C5: from the mount on, the model path is one entry of the ten-entry
\* catalog and the metal key one of the three presets, and no step taken
\* while mounted (re-render, load callback, animation step, resize, unmount)
\* changes either.
C5_SelectionStable ==
  /\ [](phase # "init" =>
          /\ \E i \in 1..Len(RING_MODELS) : modelPath = RING_MODELS[i]
          /\ \E i \in 1..Len(METAL_KEYS) : metalKey = METAL_KEYS[i])
  /\ [][phase = "mounted" => (modelPath' = modelPath /\ metalKey' = metalKey)]_vars

C5_Witness ==
  /\ phase = "mounted"
  /\ modelPath = RING_MODELS[4]
  /\ metalKey = "white"
  /\ heightProp # rendererSize[2]
  /\ hdrState = "loaded"
  /\ modelState = "loaded"
  /\ renders > 1

\* C6: while mounted, with no resize event waiting, the renderer's size is the
\* container's (clientWidth, clientHeight) and the camera's aspect is their
\* quotient.
C6_SizeTracksContainer ==
  (phase = "mounted" /\ ~resizePending)
    => /\ rendererSize = << clientWidth, clientHeight >>
       /\ cameraAspect = Ratio(clientWidth, clientHeight)

\* C7: at most one animation-frame callback is scheduled; while mounted it is
\* the one whose handle rafId holds, so the cleanup cancels the pending one;
\* after the cleanup none is scheduled and no animation step runs.
C7_SingleRenderLoop ==
  /\ [](/\ Cardinality(rafQueue) <= 1
        /\ (phase = "mounted" => rafQueue = { rafId })
        /\ (phase = "unmounted" => rafQueue = {}))
  /\ [][phase = "unmounted" => (renders' = renders /\ rotSteps' = rotSteps)]_vars

C7_Witness ==
  /\ phase = "unmounted"
  /\ renders > 2
  /\ rotSteps > 0

\* C8: a load callback that runs after the cleanup changes neither the gem
\* material nor diamondEnv, attaches no model root and reassigns no mesh.
C8_LateContinuationDropped ==
  [][phase = "unmounted" =>
       /\ diamondMat' = diamondMat
       /\ diamondEnv' = diamondEnv
       /\ ringRoot' = ringRoot
       /\ sceneRoot' = sceneRoot
       /\ meshes' = meshes]_vars

\* C9: once the HDR load has resolved, whatever the model load did: on
\* success the gem material's environment map is the HDR-derived map, its
\* intensity is still 5 and the HDR image was disposed; on failure the map is
\* the synthetic room map with intensity 6. The metal material's environment
\* map is the synthetic room map throughout.
C9_GemEnvFollowsHdr ==
  /\ hdrState = "loaded"
       => /\ diamondMat.envMap = "diamondEnv"
          /\ diamondEnv = "diamondEnv"
          /\ diamondMat.envMapIntensity = GemEnvIntensity
          /\ disposed["hdr"] = 1
  /\ hdrState = "failed"
       => /\ diamondMat.envMap = "metalEnv"
          /\ diamondMat.envMapIntensity = FallbackEnvIntensity
          /\ disposed["hdr"] = 0
  /\ phase # "init" => goldMat.envMap = "metalEnv"

C9_Witness ==
  /\ hdrState = "loaded"
  /\ modelState = "loaded"
  /\ diamondMat.depthWrite = FALSE
  /\ \E i \in 1..Len(meshes) : meshes[i].material = "diamondMat"

\* C10: after the model load failure callback the load stays failed, one
\* load was issued, the error was logged once with the model path, no model
\* root exists or is in the scene, no rotation was applied, and while mounted
\* the animation step, a waiting resize event and the cleanup can still run.
C10_ModelFailureTerminal ==
  /\ [](modelState = "failed" =>
          /\ ringRoot = Null
          /\ ~sceneRoot
          /\ meshes = << >>
          /\ rotSteps = 0
          /\ loads.gltf = 1
          /\ errorLog = << modelPath >>
          /\ (phase = "mounted" =>
                /\ ENABLED Teardown
                /\ (rafHandle <= MaxFrames => ENABLED AnimationFrame)
                /\ (resizePending => ENABLED DispatchResize)))
  /\ [][modelState = "failed" => modelState' = "failed"]_vars

C10_Witness ==
  /\ modelState = "failed"
  /\ phase = "unmounted"
  /\ renders > 2
  /\ rotSteps = 0
  /\ teardowns = 1

====
